---- MODULE Spec2Model ----
(***************************************************************************)
(* Versioned key-value map (src/src/main.rs): struct Element holds the     *)
(* current HashMap `elem` and the Vec of snapshots `vec`.  Every method of *)
(* impl Element is one action; main() is followed by a program counter.    *)
(***************************************************************************)
EXTENDS Integers, Sequences, FiniteSets, TLC

VARIABLES
    elem,            \* Element.elem : HashMap<String, String>
    vec,             \* Element.vec  : Vec<Map>
    panicked,        \* TRUE once a method call has panicked (thread unwinds)
    last,            \* the most recent method call, with its arguments
    prev,            \* name of the method called before `last`
    ret,             \* what the most recent call returned
    main_pc          \* number of main()'s calls completed, -1 when not main

vars == <<elem, vec, panicked, last, prev, ret, main_pc>>

----------------------------------------------------------------------------
(* Bounds of the model *)

MaxHist == 2

\* keys and values the callers pass (the strings used by main and the tests)
Keys == {"key", "key1"}
Values == {"value", "value1"}

\* versions passed to rollback: 0, every position, and one past the bound
Versions == 0 .. (MaxHist + 1)

----------------------------------------------------------------------------
(* Data: HashMap<String,String> as a function on a finite set of keys,     *)
(* Vec<Map> as a sequence, Option<T> and () as tagged records.             *)

EmptyMap == [k \in {} |-> "value"]

None == [kind |-> "None"]
Some(v) == [kind |-> "Some", val |-> v]
Unit == [kind |-> "unit"]
Usize(n) == [kind |-> "usize", val |-> n]
Unwind == [kind |-> "panic"]

\* stand-in for usize::MAX: the largest integer of the checker; all that the
\* code uses of it is that no Vec index reaches it
USIZE_MAX == 2147483647

HashMap_insert_keep(m, k, v) ==
    [x \in (DOMAIN m) \cup {k} |-> IF x \in DOMAIN m THEN m[x] ELSE v]

HashMap_insert(m, k, v) == [x \in (DOMAIN m) \cup {k} |-> IF x = k THEN v ELSE m[x]]

HashMap_remove_clear(m, k) == IF k \in DOMAIN m THEN EmptyMap ELSE m

HashMap_remove(m, k) == [x \in (DOMAIN m) \ {k} |-> m[x]]

HashMap_get(m, k) == IF k \in DOMAIN m THEN Some(m[k]) ELSE None

HashMap_len(m) == Cardinality(DOMAIN m)

Vec_get_clamp(s, idx) ==
    IF idx < Len(s) THEN Some(s[idx + 1])
    ELSE IF Len(s) > 0 THEN Some(s[Len(s)]) ELSE None

Vec_get_rev(s, idx) == IF idx < Len(s) THEN Some(s[Len(s) - idx]) ELSE None

\* slice::get with a 0-based index
Vec_get(s, idx) == IF idx < Len(s) THEN Some(s[idx + 1]) ELSE None

Vec_last_first(s) == IF Len(s) = 0 THEN None ELSE Some(s[1])

Vec_last(s) == IF Len(s) = 0 THEN None ELSE Some(s[Len(s)])

Vec_push_front(s, m) == <<m>> \o s

Vec_push(s, m) == Append(s, m)

usize_sub_none(a, b, checked) == Usize(a)

\* the build decides whether integer arithmetic is checked: TRUE in a debug
\* profile (cargo run, cargo test), FALSE in a release profile
OverflowChecks == BOOLEAN

\* `a - b` on usize: panics when overflow checks are compiled in, wraps
\* around otherwise
usize_sub(a, b, checked) ==
    IF a >= b THEN Usize(a - b)
    ELSE IF checked THEN Unwind
    ELSE Usize(USIZE_MAX - (b - a) + 1)

----------------------------------------------------------------------------
(* main(): the calls it makes on its Element, in order *)

MainScript ==
    << [op |-> "insert", key |-> "key", value |-> "value"],
       [op |-> "get", key |-> "key"],
       [op |-> "remove", key |-> "key"],
       [op |-> "len"],
       [op |-> "checkpoint"],
       [op |-> "rollback", version |-> 0] >>

\* main_pc after `call`: advances while the calls made are exactly main's
MainAdvance(call, unwound) ==
    IF main_pc >= 0 /\ main_pc < Len(MainScript) /\ MainScript[main_pc + 1] = call
    THEN (IF unwound THEN main_pc ELSE main_pc + 1)
    ELSE -1

\* bookkeeping shared by every call that returns normally
Returns(call, r) ==
    /\ last' = call
    /\ prev' = last.op
    /\ ret' = r
    /\ main_pc' = MainAdvance(call, FALSE)
    /\ UNCHANGED panicked

----------------------------------------------------------------------------
(* Element::new *)

new_with_snapshot == [elem |-> EmptyMap, vec |-> << EmptyMap >>]

new == [elem |-> EmptyMap, vec |-> << >>]

Init ==
    /\ elem = new.elem
    /\ vec = new.vec
    /\ panicked = FALSE
    /\ last = [op |-> "new"]
    /\ prev = "none"
    /\ ret = Unit
    /\ main_pc = 0

(* Element::insert *)
insert(key, value) ==
    /\ ~panicked
    /\ elem' = HashMap_insert(elem, key, value)
    /\ UNCHANGED vec
    /\ Returns([op |-> "insert", key |-> key, value |-> value], Unit)

(* Element::remove *)
remove(key) ==
    /\ ~panicked
    /\ elem' = HashMap_remove(elem, key)
    /\ UNCHANGED vec
    /\ Returns([op |-> "remove", key |-> key], Unit)

get_take(key) ==
    /\ ~panicked
    /\ elem' = HashMap_remove(elem, key)
    /\ UNCHANGED vec
    /\ Returns([op |-> "get", key |-> key], HashMap_get(elem, key))

(* Element::get *)
get(key) ==
    /\ ~panicked
    /\ UNCHANGED <<elem, vec>>
    /\ Returns([op |-> "get", key |-> key], HashMap_get(elem, key))

len_vec ==
    /\ ~panicked
    /\ UNCHANGED <<elem, vec>>
    /\ Returns([op |-> "len"], Usize(Len(vec)))

(* Element::len *)
len ==
    /\ ~panicked
    /\ UNCHANGED <<elem, vec>>
    /\ Returns([op |-> "len"], Usize(HashMap_len(elem)))

(* Element::vec_len *)
vec_len ==
    /\ ~panicked
    /\ UNCHANGED <<elem, vec>>
    /\ Returns([op |-> "vec_len"], Usize(Len(vec)))

checkpoint_dedup ==
    /\ ~panicked
    /\ Len(vec) < MaxHist
    /\ vec' = IF Vec_last(vec) = Some(elem) THEN vec ELSE Vec_push(vec, elem)
    /\ UNCHANGED elem
    /\ Returns([op |-> "checkpoint"], Unit)

checkpoint_overwrite ==
    /\ ~panicked
    /\ Len(vec) < MaxHist
    /\ vec' = IF Len(vec) = 0 THEN Vec_push(vec, elem)
              ELSE [vec EXCEPT ![Len(vec)] = elem]
    /\ UNCHANGED elem
    /\ Returns([op |-> "checkpoint"], Unit)

(* Element::checkpoint *)
checkpoint ==
    /\ ~panicked
    /\ Len(vec) < MaxHist
    /\ vec' = Vec_push(vec, elem)
    /\ UNCHANGED elem
    /\ Returns([op |-> "checkpoint"], Unit)

rollback_elem_merge(e, s, version, checked) ==
    LET idx == usize_sub(version, 1, checked)
    IN  IF idx = Unwind
        THEN Unwind
        ELSE LET v == Vec_get(s, idx.val)
             IN  IF v = None THEN Some(e)
                 ELSE Some([k \in (DOMAIN e) \cup (DOMAIN v.val) |->
                              IF k \in DOMAIN v.val THEN v.val[k] ELSE e[k]])

(* Element::rollback: the value of self.elem when the call returns, or Unwind *)
rollback_elem(e, s, version, checked) ==
    LET idx == usize_sub(version, 1, checked)
    IN  IF idx = Unwind
        THEN Unwind
        ELSE LET v == Vec_get(s, idx.val)
             IN  IF v = None THEN Some(e) ELSE Some(v.val)

rollback_truncate(version) ==
    /\ ~panicked
    /\ \E checked \in OverflowChecks :
       LET r == rollback_elem(elem, vec, version, checked)
           call == [op |-> "rollback", version |-> version]
       IN  IF r = Unwind
           THEN /\ panicked' = TRUE
                /\ last' = call
                /\ prev' = last.op
                /\ ret' = Unwind
                /\ main_pc' = MainAdvance(call, TRUE)
                /\ UNCHANGED <<elem, vec>>
           ELSE /\ elem' = r.val
                /\ vec' = IF version \in 1 .. Len(vec) THEN SubSeq(vec, 1, version) ELSE vec
                /\ Returns(call, Unit)

(* Element::rollback *)
rollback(version) ==
    /\ ~panicked
    /\ \E checked \in OverflowChecks :
       LET r == rollback_elem(elem, vec, version, checked)
           call == [op |-> "rollback", version |-> version]
       IN  IF r = Unwind
           THEN /\ panicked' = TRUE
                /\ last' = call
                /\ prev' = last.op
                /\ ret' = Unwind
                /\ main_pc' = MainAdvance(call, TRUE)
                /\ UNCHANGED <<elem, vec>>
           ELSE /\ elem' = r.val
                /\ UNCHANGED vec
                /\ Returns(call, Unit)

prune_strict ==
    /\ ~panicked
    /\ LET e == Vec_last(vec)
           cleared == << >>
       IN  vec' = IF Len(vec) > 1 THEN Vec_push(cleared, e.val) ELSE cleared
    /\ UNCHANGED elem
    /\ Returns([op |-> "prune"], Unit)

prune_noop ==
    /\ ~panicked
    /\ UNCHANGED <<elem, vec>>
    /\ Returns([op |-> "prune"], Unit)

prune_reset ==
    /\ ~panicked
    /\ LET e == Vec_last(vec)
           cleared == << >>
       IN  /\ vec' = IF e = None THEN cleared ELSE Vec_push(cleared, e.val)
           /\ elem' = IF e = None THEN elem ELSE e.val
    /\ Returns([op |-> "prune"], Unit)

(* Element::prune *)
prune ==
    /\ ~panicked
    /\ LET e == Vec_last(vec)
           cleared == << >>
       IN  vec' = IF e = None THEN cleared ELSE Vec_push(cleared, e.val)
    /\ UNCHANGED elem
    /\ Returns([op |-> "prune"], Unit)

Next ==
    \/ \E k \in Keys, v \in Values : insert(k, v)
    \/ \E k \in Keys : remove(k)
    \/ \E k \in Keys : get(k)
    \/ len
    \/ vec_len
    \/ checkpoint
    \/ \E n \in Versions : rollback(n)
    \/ prune

Spec == Init /\ [][Next]_vars

----------------------------------------------------------------------------
(* Properties *)

IsCall(l, name) == l.op = name

\* C1: rollback(0) is a no-op in every reachable state: the call returns
\* without panicking and leaves elem and vec as they were; in particular
\* main(), which ends with rollback(0), never panics.
C1_RollbackZeroIsNoOp ==
    /\ [](main_pc >= 0 => ~panicked)
    /\ [][(IsCall(last', "rollback") /\ last'.version = 0)
            => (~panicked' /\ elem' = elem /\ vec' = vec)]_vars

\* C2: rollback(version) with version > vec_len() returns normally and
\* leaves elem and vec unchanged.
C2_RollbackPastEndIsNoOp ==
    [][(IsCall(last', "rollback") /\ last'.version > Len(vec))
         => (~panicked' /\ ret' = Unit /\ elem' = elem /\ vec' = vec)]_vars

C2_Witness ==
    /\ IsCall(last, "rollback")
    /\ ~panicked
    /\ Len(vec) >= 1
    /\ last.version = Len(vec) + 1
    /\ elem # vec[Len(vec)]

\* C3: rollback(v) with 1 <= v <= vec_len() makes elem equal to the
\* snapshot at 1-based position v and leaves vec unchanged.
C3_RollbackRestoresSnapshot ==
    [][(IsCall(last', "rollback") /\ last'.version \in 1 .. Len(vec))
         => (~panicked' /\ elem' = vec[last'.version] /\ vec' = vec)]_vars

C3_Witness ==
    /\ IsCall(last, "rollback")
    /\ Len(vec) >= 2
    /\ last.version = 1
    /\ vec[1] # vec[2]
    /\ elem = vec[1]
    /\ prev \in {"insert", "remove"}

\* C4: checkpoint() appends exactly one snapshot equal to elem at the end
\* of vec; the earlier snapshots keep their positions and contents.
C4_CheckpointAppends ==
    [][IsCall(last', "checkpoint")
         => /\ ~panicked'
            /\ Len(vec') = Len(vec) + 1
            /\ vec'[Len(vec')] = elem
            /\ vec'[Len(vec')] = elem'
            /\ SubSeq(vec', 1, Len(vec)) = vec]_vars

C4_Witness ==
    /\ IsCall(last, "checkpoint")
    /\ Len(vec) >= 2
    /\ vec[Len(vec)] = elem
    /\ elem # EmptyMap
    /\ vec[1] # vec[2]

\* C5: prune() leaves min(1, vec_len()) snapshots; when vec was non-empty
\* the one kept is the last one, so rollback(1) afterwards gives the elem
\* that rollback(vec_len()) would have given before.
C5_PruneKeepsLast ==
    [][IsCall(last', "prune")
         => /\ ~panicked'
            /\ Len(vec') = (IF Len(vec) < 1 THEN Len(vec) ELSE 1)
            /\ Len(vec) > 0 =>
                 /\ vec'[1] = vec[Len(vec)]
                 /\ \A checked \in OverflowChecks :
                      rollback_elem(elem', vec', 1, checked)
                        = rollback_elem(elem, vec, Len(vec), checked)]_vars

C5_Witness ==
    /\ IsCall(last, "prune")
    /\ prev = "checkpoint"
    /\ Len(vec) = 1
    /\ vec[1] # EmptyMap

\* C6: a stored snapshot never changes while no prune() happens: every
\* call other than prune keeps each entry of vec at its position, a
\* checkpoint stores the elem of that moment, and rollback(i) restores the
\* entry at position i.
C6_SnapshotsImmutable ==
    [][~IsCall(last', "prune")
         => /\ Len(vec') >= Len(vec)
            /\ \A i \in 1 .. Len(vec) : vec'[i] = vec[i]
            /\ IsCall(last', "checkpoint") => vec'[Len(vec')] = elem
            /\ (IsCall(last', "rollback") /\ ~panicked' /\ last'.version \in 1 .. Len(vec))
                 => elem' = vec[last'.version]]_vars

C6_Witness ==
    /\ last.op \in {"insert", "remove"}
    /\ prev = "checkpoint"
    /\ Len(vec) >= 2
    /\ vec[1] # vec[2]
    /\ elem # vec[1]
    /\ elem # vec[2]

\* C7: vec_len() grows by exactly 1 on checkpoint, becomes at most 1 and
\* never larger on prune, and is unchanged by insert, remove, get, len,
\* vec_len and rollback with any version.
C7_HistoryLengthSteps ==
    [][/\ IsCall(last', "checkpoint") => Len(vec') = Len(vec) + 1
       /\ IsCall(last', "prune") => (Len(vec') <= 1 /\ Len(vec') <= Len(vec))
       /\ last'.op \in {"insert", "remove", "get", "len", "vec_len", "rollback"}
            => Len(vec') = Len(vec)]_vars

C7_Witness ==
    /\ IsCall(last, "rollback")
    /\ last.version = 1
    /\ Len(vec) = MaxHist
    /\ prev = "checkpoint"

\* C8: after insert(k, v), get(k) returns v, every other key of elem keeps
\* its value, and vec is untouched.
C8_InsertThenGet ==
    [][IsCall(last', "insert")
         => /\ ~panicked'
            /\ HashMap_get(elem', last'.key) = Some(last'.value)
            /\ \A k \in Keys \ {last'.key} : HashMap_get(elem', k) = HashMap_get(elem, k)
            /\ vec' = vec]_vars

C8_Witness ==
    /\ IsCall(last, "insert")
    /\ Len(vec) >= 1
    /\ last.key \in DOMAIN vec[Len(vec)]
    /\ vec[Len(vec)][last.key] # last.value
    /\ prev = "checkpoint"
    /\ DOMAIN elem = Keys

\* C9: after remove(k), get(k) returns None; when k was absent elem is
\* unchanged; every other key of elem and all of vec are unchanged.
C9_RemoveThenGet ==
    [][IsCall(last', "remove")
         => /\ ~panicked'
            /\ HashMap_get(elem', last'.key) = None
            /\ last'.key \notin DOMAIN elem => elem' = elem
            /\ \A k \in Keys \ {last'.key} : HashMap_get(elem', k) = HashMap_get(elem, k)
            /\ vec' = vec]_vars

C9_Witness ==
    /\ IsCall(last, "remove")
    /\ prev = "checkpoint"
    /\ Len(vec) >= 1
    /\ DOMAIN vec[Len(vec)] = Keys
    /\ DOMAIN elem = Keys \ {last.key}

\* C10: checkpoint() followed immediately by rollback(vec_len()) leaves
\* elem as it was just before the checkpoint.
C10_CheckpointThenRollback ==
    [][/\ IsCall(last', "checkpoint") => elem' = elem
       /\ (IsCall(last, "checkpoint") /\ IsCall(last', "rollback")
             /\ last'.version = Len(vec))
            => (~panicked' /\ elem' = elem)]_vars

C10_Witness ==
    /\ IsCall(last, "rollback")
    /\ prev = "checkpoint"
    /\ ~panicked
    /\ Len(vec) >= 2
    /\ last.version = Len(vec)
    /\ elem # EmptyMap
    /\ elem # vec[1]

\* C11: Element::new() yields an empty elem and an empty vec: right after
\* it len() = 0, vec_len() = 0 and get(k) is None for every key, also as
\* the results of the first call made on the new Element.
C11_NewIsEmpty ==
    /\ IsCall(last, "new") =>
         /\ ~panicked
         /\ elem = EmptyMap
         /\ vec = << >>
         /\ HashMap_len(elem) = 0
         /\ Len(vec) = 0
         /\ \A k \in Keys : HashMap_get(elem, k) = None
    /\ (prev = "new" /\ IsCall(last, "len")) => ret = Usize(0)
    /\ (prev = "new" /\ IsCall(last, "vec_len")) => ret = Usize(0)
    /\ (prev = "new" /\ IsCall(last, "get")) => ret = None

C11_Witness ==
    /\ prev = "new"
    /\ IsCall(last, "vec_len")
    /\ ret = Usize(0)
    /\ main_pc = -1

\* C12: checkpoint() and prune() never change elem: the keys, the values,
\* the result of get for every key and of len are the same before and after,
\* also when prune runs on an empty vec.
C12_CheckpointPruneKeepCurrent ==
    [][(IsCall(last', "checkpoint") \/ IsCall(last', "prune"))
         => /\ ~panicked'
            /\ elem' = elem
            /\ \A k \in Keys : HashMap_get(elem', k) = HashMap_get(elem, k)
            /\ HashMap_len(elem') = HashMap_len(elem)]_vars

C12_Witness ==
    /\ IsCall(last, "prune")
    /\ prev = "checkpoint"
    /\ Len(vec) = 1
    /\ DOMAIN elem = Keys
    /\ elem = vec[1]

\* C13: get, len and vec_len change neither elem nor vec; get returns None
\* or Some(value) and never panics; get(k) called twice in a row returns
\* the same result.
C13_ReadsAreReadOnly ==
    [][(IsCall(last', "get") \/ IsCall(last', "len") \/ IsCall(last', "vec_len"))
         => /\ ~panicked'
            /\ elem' = elem
            /\ vec' = vec
            /\ IsCall(last', "get") =>
                 /\ ret' \in {None} \cup {Some(v) : v \in Values}
                 /\ (ret' = None) <=> (last'.key \notin DOMAIN elem)
                 /\ last = last' => ret' = ret]_vars

C13_Witness ==
    /\ IsCall(last, "get")
    /\ prev = "get"
    /\ ret = None
    /\ elem # EmptyMap
    /\ Len(vec) >= 1

\* the keys for which get returns a value
PresentKeys(m) == {k \in Keys : HashMap_get(m, k) # None}

\* C14: len() is the number of keys for which get returns a value; insert
\* of an absent key adds 1, insert of a present key and remove of an absent
\* key add nothing, remove of a present key subtracts 1; main's insert,
\* get, remove, len on a new Element ends with len() = 0.
C14_LenCountsKeys ==
    /\ [](HashMap_len(elem) = Cardinality(PresentKeys(elem)))
    /\ [](IsCall(last, "len") => ret = Usize(Cardinality(PresentKeys(elem))))
    /\ [](main_pc = 4 => ret = Usize(0))
    /\ [][/\ IsCall(last', "insert") =>
              HashMap_len(elem') = HashMap_len(elem)
                  + (IF last'.key \in PresentKeys(elem) THEN 0 ELSE 1)
          /\ IsCall(last', "remove") =>
              HashMap_len(elem') = HashMap_len(elem)
                  - (IF last'.key \in PresentKeys(elem) THEN 1 ELSE 0)]_vars

C14_Witness ==
    /\ IsCall(last, "len")
    /\ prev = "remove"
    /\ ret = Usize(1)
    /\ Len(vec) = MaxHist

\* C15: checkpoint() called twice in a row keeps both snapshots: each call
\* adds one entry, and after the second the last two entries are equal to
\* each other and to elem.
C15_DoubleCheckpointKeepsBoth ==
    [][IsCall(last', "checkpoint")
         => /\ Len(vec') = Len(vec) + 1
            /\ IsCall(last, "checkpoint") =>
                 /\ Len(vec') >= 2
                 /\ vec'[Len(vec')] = vec'[Len(vec') - 1]
                 /\ vec'[Len(vec')] = elem']_vars

C15_Witness ==
    /\ IsCall(last, "checkpoint")
    /\ prev = "checkpoint"
    /\ Len(vec) = 2
    /\ vec[1] = vec[2]
    /\ vec[2] = elem
    /\ elem # EmptyMap

\* C16: prune() is idempotent: a prune() right after a prune() changes
\* neither elem nor vec.
C16_PruneIdempotent ==
    [][(IsCall(last, "prune") /\ IsCall(last', "prune"))
         => (~panicked' /\ elem' = elem /\ vec' = vec)]_vars

C16_Witness ==
    /\ IsCall(last, "prune")
    /\ prev = "prune"
    /\ Len(vec) = 1
    /\ elem # vec[1]

\* C17: after prune() at most one snapshot is left, so rollback(v) with
\* v >= 2 right after it returns normally and changes neither elem nor vec;
\* only rollback(1) can change elem.
C17_AfterPruneOnlyVersionOne ==
    /\ [](IsCall(last, "prune") => Len(vec) <= 1)
    /\ [][(IsCall(last, "prune") /\ IsCall(last', "rollback"))
            => /\ last'.version >= 2 => (~panicked' /\ elem' = elem /\ vec' = vec)
               /\ elem' # elem => (last'.version = 1 /\ elem' = vec[1])]_vars

C17_Witness ==
    /\ IsCall(last, "rollback")
    /\ prev = "prune"
    /\ last.version = 2
    /\ ~panicked
    /\ Len(vec) = 1
    /\ elem # vec[1]

\* the snapshots stored in a Vec
Snapshots(s) == {s[i] : i \in 1 .. Len(s)}

\* C18: every snapshot in vec is a value elem had when checkpoint() was
\* called (an entry is either an entry stored before or the elem of the
\* checkpoint being made); an in-range rollback(v) makes elem the one at
\* position v; and after insert or remove vec is as before and rollback(v)
\* would still give that entry, so repeating rollback(v) after them gives
\* the same elem again.
C18_RollbackYieldsCheckpointedValue ==
    [][/\ vec' # vec =>
            \A i \in 1 .. Len(vec') :
               \/ vec'[i] \in Snapshots(vec)
               \/ IsCall(last', "checkpoint") /\ vec'[i] = elem
       /\ (IsCall(last', "rollback") /\ last'.version \in 1 .. Len(vec))
            => (~panicked' /\ elem' = vec[last'.version] /\ elem' \in Snapshots(vec))
       /\ (IsCall(last', "insert") \/ IsCall(last', "remove"))
            => /\ vec' = vec
               /\ \A v \in 1 .. Len(vec) : \A checked \in OverflowChecks :
                    rollback_elem(elem', vec', v, checked) = Some(vec[v])]_vars

C18_Witness ==
    /\ IsCall(last, "rollback")
    /\ prev \in {"insert", "remove"}
    /\ Len(vec) = 2
    /\ last.version = 2
    /\ elem = vec[2]
    /\ vec[1] # vec[2]
    /\ DOMAIN vec[2] # DOMAIN vec[1]

====
